---- MODULE Spec2Model ----
(***************************************************************************)
(* Model of app.py: the job tables download_progress / download_metadata,  *)
(* the background download units (download_video), the progress callback   *)
(* (progress_hook), the HTTP handlers (download, progress, download_file), *)
(* the delayed cleanup threads and the Janitor (cleanup_old_files), over   *)
(* an abstract download directory.                                         *)
(***************************************************************************)
EXTENDS Integers, Sequences, FiniteSets, TLC

\* ------------------------------------------------------------------ bounds
\* Number of background download units that may be launched in one behaviour.
MaxJobs == 2
\* Number of files the download directory may hold at once.
MaxFiles == 2
\* Number of delayed cleanup threads that may sleep at once for one identifier.
MaxCleanups == 1

\* ------------------------------------------------------------ value spaces
\* Platform-assigned video identifiers.
Ids == {"X", "Y"}
\* Python's None, for a string-valued slot.
None == "None"
\* File extensions: the container the collaborator downloads and the codec of
\* the FFmpegExtractAudio postprocessor (line 214).
Exts == {"mp4", "mp3"}
\* A file name '<title>_<id>.<ext>' of the outtmpl, reduced to its id and extension.
Names == [vid : Ids, ext : Exts]
\* Python's None, for a filename/filepath slot.
NoName == [vid |-> None, ext |-> None]
Jobs == 1..MaxJobs

\* Age classes of a file's creation time: 0 = younger than 300 s,
\* 1 = between 300 s and MAX_DOWNLOAD_AGE, 2 = older than MAX_DOWNLOAD_AGE.
AgeFresh == 0
AgeMid == 1
AgeOld == 2

\* ----------------------------------------------------------- get_video_id
\* Host names are sequences of pieces, so that the substring test of the code
\* ('youtube_domain in domain') is a contiguous-subsequence test.
youtube_domains ==
    { <<"youtube.com">>, <<"www.", "youtube.com">>,
      <<"m.", "youtube.com">>, <<"youtu.be">> }

\* Python's 'a in b' for strings.
Contains(a, b) ==
    \E i \in 1..(Len(b) - Len(a) + 1) : SubSeq(b, i, i + Len(a) - 1) = a

\* parsed_url.path[1:] for the paths of the model.
PathTail(path) ==
    CASE path = "/X" -> "X"
      [] path = "/Y" -> "Y"
      [] OTHER -> ""

\* The URLs a request may carry: netloc, path and the v query parameter
\* (None when absent; parse_qs drops blank values).
Hosts ==
    youtube_domains \cup { <<"not", "youtube.com">>, <<"example.com">> }
URLs == [netloc : Hosts, path : {"", "/", "/X", "/Y"}, v : Ids \cup {None}]
\* The URLs the requests of the model carry.
RequestURLs ==
    { [netloc |-> <<"www.", "youtube.com">>, path |-> "", v |-> "X"],
      [netloc |-> <<"youtube.com">>, path |-> "", v |-> "Y"],
      [netloc |-> <<"youtu.be">>, path |-> "/X", v |-> None],
      [netloc |-> <<"not", "youtube.com">>, path |-> "", v |-> "X"],
      [netloc |-> <<"youtu.be">>, path |-> "/", v |-> None],
      [netloc |-> <<"m.", "youtube.com">>, path |-> "", v |-> None],
      [netloc |-> <<"example.com">>, path |-> "/X", v |-> "X"] }
\* A request without a URL (url missing, None or empty).
NoUrl == [netloc |-> <<>>, path |-> "", v |-> None]

\* get_video_id without the test of the host against youtube_domains.
get_video_id_any_host(url) ==
    IF Contains(<<"youtu.be">>, url.netloc)
    THEN (IF url.path # "" THEN PathTail(url.path) ELSE None)
    ELSE url.v

get_video_id(url) ==
    IF \E d \in youtube_domains : Contains(d, url.netloc)
    THEN IF Contains(<<"youtu.be">>, url.netloc)
         THEN (IF url.path # "" THEN PathTail(url.path) ELSE None)
         ELSE url.v
    ELSE None

\* Python truthiness of an identifier: None and '' are falsy.
Truthy(s) == s # None /\ s # ""

\* ------------------------------------------------------------------- state
VARIABLES
    download_progress,  \* identifier -> ProgressRecord (a dict: its DOMAIN are the keys)
    download_metadata,  \* identifier -> MetadataRecord
    files,              \* the download directory, newest file first
    jobs,               \* the background download units (threads running download_video)
    post,               \* the POST /api/download handler in flight, if any
    cleanups,           \* identifier -> number of sleeping delayed cleanup threads
    resp                \* the last HTTP response sent

vars == <<download_progress, download_metadata, files, jobs, post, cleanups, resp>>

\* A key of a ProgressRecord that has not been written yet.
Unset == -1

\* Messages stored in a ProgressRecord's 'error' slot.
MsgNoFile == "Download completed but file not found"
MsgKeyError == "KeyError"
MsgCollab == "DownloadError"

\* dict helpers
Has(d, k) == k \in DOMAIN d
Del(d, k) == [x \in (DOMAIN d) \ {k} |-> d[x]]
Put(d, k, v) == [x \in (DOMAIN d) \cup {k} |-> IF x = k THEN v ELSE d[x]]

\* The record written at the start of a download (lines 231-237). 'by' and
\* 'stale' are history: the unit that initialised the record, and whether a
\* unit other than that one has written into it since.
InitRecord(j) ==
    [progress |-> 0, filename |-> NoName, filepath |-> NoName,
     status |-> "starting", downloaded_bytes |-> Unset, total_bytes |-> Unset,
     error |-> None, end_time |-> FALSE, by |-> j, stale |-> FALSE]

\* A background unit: its position, arguments and locals. 'late' is history:
\* the unit was launched while a delayed cleanup of its identifier was
\* sleeping, and no file has been sent for the identifier since.
IdleJob ==
    [pc |-> "idle", vid |-> None, audio |-> FALSE, actual |-> NoName, exc |-> None,
     late |-> FALSE]
IdlePost == [pc |-> "idle", vid |-> None, audio |-> FALSE]
NoResp == [op |-> "none", vid |-> None, code |-> 0, body |-> "none", progress |-> 0,
           file |-> NoName]

Init ==
    /\ download_progress = << >>
    /\ download_metadata = << >>
    /\ files = << >>
    /\ jobs = [j \in Jobs |-> IdleJob]
    /\ post = IdlePost
    /\ cleanups = [v \in Ids |-> 0]
    /\ resp = NoResp

\* No response is on its way out: the handlers run one at a time, and a step
\* is taken only once the last response has been sent.
Ready == resp = NoResp

\* --------------------------------------------------------------- directory
FileNames(fs) == { fs[i].name : i \in 1..Len(fs) }
\* os.path.exists(path) and os.path.getsize(path) > 0
ExistsNonEmpty(fs, n) == \E i \in 1..Len(fs) : fs[i].name = n /\ fs[i].size > 0
Exists(fs, n) == n \in FileNames(fs)
Without(fs, n) == SelectSeq(fs, LAMBDA f : f.name # n)

\* cleanup_old_files: every file older than MAX_DOWNLOAD_AGE is removed.
cleanup_old_files(fs) == SelectSeq(fs, LAMBDA f : f.age # AgeOld)

\* ------------------------------------------------------------ progress_hook
\* The ticks the collaborator may report: total_bytes known, only the
\* estimate known, neither known; and the end of the transfer.
\* (0 stands for an absent or zero byte count: both are falsy at line 174.)
TickKnown ==
    [status |-> "downloading", total_bytes |-> 2, total_bytes_estimate |-> 0,
     downloaded_bytes |-> 1]
TickEstimate ==
    [status |-> "downloading", total_bytes |-> 0, total_bytes_estimate |-> 2,
     downloaded_bytes |-> 3]
TickUnknown ==
    [status |-> "downloading", total_bytes |-> 0, total_bytes_estimate |-> 0,
     downloaded_bytes |-> 3]
TickFinished ==
    [status |-> "finished", total_bytes |-> 0, total_bytes_estimate |-> 0,
     downloaded_bytes |-> 0]
Ticks == {TickKnown, TickEstimate, TickUnknown, TickFinished}

\* d.get('total_bytes') or d.get('total_bytes_estimate') or 1
TotalOf(d) ==
    IF d.total_bytes # 0 THEN d.total_bytes
    ELSE IF d.total_bytes_estimate # 0 THEN d.total_bytes_estimate ELSE 1

\* The record after progress_hook(d, video_id) ran in unit j (lines 173-187).
HookRecord(r, d, j, fname) ==
    IF d.status = "downloading"
    THEN [r EXCEPT !.progress = (d.downloaded_bytes * 100) \div TotalOf(d),
                   !.status = "downloading",
                   !.downloaded_bytes = d.downloaded_bytes,
                   !.total_bytes = TotalOf(d),
                   !.stale = (@ \/ r.by # j)]
    ELSE [r EXCEPT !.progress = 100,
                   !.status = "processing",
                   !.filepath = fname,
                   !.stale = (@ \/ r.by # j)]

\* d['filename'] of a 'finished' tick: the container file just downloaded.
DownloadedName(vid) == [vid |-> vid, ext |-> "mp4"]

\* progress_hook as called from unit j while its collaborator call runs.
progress_hook(j, d) ==
    /\ Ready
    /\ jobs[j].pc = "extract"
    /\ IF Has(download_progress, jobs[j].vid)
       THEN download_progress' =
                [download_progress EXCEPT
                   ![jobs[j].vid] = HookRecord(@, d, j, DownloadedName(jobs[j].vid))]
       ELSE UNCHANGED download_progress
    /\ UNCHANGED <<download_metadata, files, jobs, post, cleanups, resp>>

\* ----------------------------------------------------------- download_video
SetJob(j, r) == [jobs EXCEPT ![j] = r]

\* The unit j after download_video returned: its locals are gone.
Done(j) == [IdleJob EXCEPT !.pc = "done", !.vid = jobs[j].vid]

\* Lines 191-237: the identifier was resolved from the same URL by the handler
\* that started the thread; the Janitor pass runs, then the ProgressRecord is
\* (over)written with a fresh record.
JobStart(j) ==
    /\ Ready
    /\ jobs[j].pc = "start"
    /\ files' = cleanup_old_files(files)
    /\ download_progress' = Put(download_progress, jobs[j].vid, InitRecord(j))
    /\ jobs' = SetJob(j, [jobs[j] EXCEPT !.pc = "extract"])
    /\ UNCHANGED <<download_metadata, post, cleanups, resp>>

\* A file written into the directory: it replaces a file of the same name and
\* is the newest one.
WriteFile(fs, n, sz) ==
    <<[name |-> n, size |-> sz, age |-> AgeFresh]>> \o Without(fs, n)

\* The names the collaborator writes for a download: the container file and,
\* for audio-only, the transcoded file.
WrittenNames(vid, audio) ==
    IF audio THEN {[vid |-> vid, ext |-> e] : e \in Exts}
    ELSE {[vid |-> vid, ext |-> "mp4"]}

\* Line 241, the collaborator writing a file of this download (possibly still
\* empty) while extract_info runs.
CollabWrite(j, n, sz) ==
    /\ Ready
    /\ jobs[j].pc = "extract"
    /\ n \in WrittenNames(jobs[j].vid, jobs[j].audio)
    /\ Exists(files, n) \/ Len(files) < MaxFiles
    /\ files' = WriteFile(files, n, sz)
    /\ UNCHANGED <<download_progress, download_metadata, jobs, post, cleanups, resp>>

\* The record of lines 244-250: it has no 'filename' key yet. 'by' is
\* history: the unit that stored the record (0: the fallback of download_file).
NewMetadata(j) == [by |-> j]

\* Lines 241-253: extract_info returns, the MetadataRecord is stored, and the
\* unit sleeps.
CollabReturn(j) ==
    /\ Ready
    /\ jobs[j].pc = "extract"
    /\ download_metadata' = Put(download_metadata, jobs[j].vid, NewMetadata(j))
    /\ jobs' = SetJob(j, [jobs[j] EXCEPT !.pc = "discover"])
    /\ UNCHANGED <<download_progress, files, post, cleanups, resp>>

\* Line 241: extract_info raises.
CollabRaise(j) ==
    /\ Ready
    /\ jobs[j].pc = "extract"
    /\ jobs' = SetJob(j, [jobs[j] EXCEPT !.pc = "except", !.exc = MsgCollab])
    /\ UNCHANGED <<download_progress, download_metadata, files, post, cleanups, resp>>

\* The predicted output name without the substitution of lines 260-262.
ExpectedNameOfContainer(vid, audio) == [vid |-> vid, ext |-> "mp4"]

\* Lines 257-262: the predicted output name; audio-only substitutes '.mp3'.
ExpectedName(vid, audio) ==
    [vid |-> vid, ext |-> IF audio THEN "mp3" ELSE "mp4"]

\* Lines 273-280: the non-empty files whose name contains the identifier
\* (os.listdir has no order: the first one found is any of them).
ByVideoId(fs, vid) ==
    { fs[i].name : i \in { k \in 1..Len(fs) : fs[k].size > 0 /\ fs[k].name.vid = vid } }

\* Lines 283-295: the most recently modified non-empty file.
MostRecent(fs) ==
    LET ne == { k \in 1..Len(fs) : fs[k].size > 0 }
    IN IF ne = {} THEN {}
       ELSE { fs[CHOOSE k \in ne : \A m \in ne : k <= m].name }

\* Lines 256-298: the files discovery may settle on, given the predicted name.
Discovered(fs, expected, vid) ==
    IF ExistsNonEmpty(fs, expected) THEN {expected}
    ELSE IF ByVideoId(fs, vid) # {} THEN ByVideoId(fs, vid)
    ELSE MostRecent(fs)

\* The record after lines 304-306.
CompletedRecord(r, n, j) ==
    [r EXCEPT !.filename = n, !.filepath = n, !.status = "completed",
              !.stale = (@ \/ r.by # j)]

\* The record after line 307.
EndTimeRecord(r, j) ==
    [r EXCEPT !.end_time = TRUE, !.stale = (@ \/ r.by # j)]

\* The record after lines 315-316 or 324-325.
ErrorRecord(r, msg, j) ==
    [r EXCEPT !.status = "error", !.error = msg, !.stale = (@ \/ r.by # j)]

\* Lines 255-306 and 313-318: file discovery, then the ProgressRecord is set to
\* completed (a file was found) or error (none was); a missing record makes
\* line 304 or 315 raise KeyError.
JobDiscover(j) ==
    LET vid == jobs[j].vid
        found == Discovered(files, ExpectedName(vid, jobs[j].audio), vid)
    IN
    /\ Ready
    /\ jobs[j].pc = "discover"
    /\ IF ~Has(download_progress, vid)
       THEN /\ jobs' = SetJob(j, [jobs[j] EXCEPT !.pc = "except", !.exc = MsgKeyError])
            /\ UNCHANGED download_progress
       ELSE IF found = {}
       THEN /\ download_progress' =
                  [download_progress EXCEPT ![vid] = ErrorRecord(@, MsgNoFile, j)]
            /\ jobs' = SetJob(j, Done(j))
       ELSE \E n \in found :
            /\ download_progress' =
                  [download_progress EXCEPT ![vid] = CompletedRecord(@, n, j)]
            /\ jobs' = SetJob(j, [jobs[j] EXCEPT !.pc = "finalmeta", !.actual = n])
    /\ UNCHANGED <<download_metadata, files, post, cleanups, resp>>

\* Lines 307-312: the end time is written into the ProgressRecord, then the
\* file name into the MetadataRecord; a missing record makes line 307 or 309
\* raise KeyError.
JobFinalMeta(j) ==
    LET vid == jobs[j].vid
    IN
    /\ Ready
    /\ jobs[j].pc = "finalmeta"
    /\ IF ~Has(download_progress, vid)
       THEN /\ jobs' = SetJob(j, [jobs[j] EXCEPT !.pc = "except", !.exc = MsgKeyError])
            /\ UNCHANGED <<download_progress, download_metadata>>
       ELSE /\ download_progress' =
                  [download_progress EXCEPT ![vid] = EndTimeRecord(@, j)]
            /\ IF Has(download_metadata, vid)
               THEN /\ download_metadata' =
                          [download_metadata EXCEPT
                             ![vid] = [by |-> @.by, filename |-> jobs[j].actual]]
                    /\ jobs' = SetJob(j, Done(j))
               ELSE /\ jobs' = SetJob(j, [jobs[j] EXCEPT !.pc = "except",
                                                         !.exc = MsgKeyError])
                    /\ UNCHANGED download_metadata
    /\ UNCHANGED <<files, post, cleanups, resp>>

\* The unit j after an exception left download_video uncaught: the thread is
\* dead.
Crashed(j) == [IdleJob EXCEPT !.pc = "crashed", !.vid = jobs[j].vid]

\* Lines 320-323: the exception is caught and the table is tested for a
\* record of the identifier.
JobExcept(j) ==
    /\ Ready
    /\ jobs[j].pc = "except"
    /\ jobs' = SetJob(j, IF Has(download_progress, jobs[j].vid)
                         THEN [jobs[j] EXCEPT !.pc = "seterror"]
                         ELSE Done(j))
    /\ UNCHANGED <<download_progress, download_metadata, files, post, cleanups, resp>>

\* Lines 324-326: the record found at line 323 is set to error; if it has
\* been deleted since, line 324 raises KeyError inside the handler, and
\* nothing catches it.
JobSetError(j) ==
    /\ Ready
    /\ jobs[j].pc = "seterror"
    /\ IF Has(download_progress, jobs[j].vid)
       THEN /\ download_progress' =
                  [download_progress EXCEPT
                     ![jobs[j].vid] = ErrorRecord(@, jobs[j].exc, j)]
            /\ jobs' = SetJob(j, Done(j))
       ELSE /\ UNCHANGED download_progress
            /\ jobs' = SetJob(j, Crashed(j))
    /\ UNCHANGED <<download_metadata, files, post, cleanups, resp>>

\* Every step of the background unit j, its progress callbacks (with the
\* ticks of 'ticks') included.
download_video(j, ticks) ==
    \/ JobStart(j)
    \/ \E d \in ticks : progress_hook(j, d)
    \/ \E n \in Names, sz \in {0, 1} : CollabWrite(j, n, sz)
    \/ CollabReturn(j)
    \/ CollabRaise(j)
    \/ JobDiscover(j)
    \/ JobFinalMeta(j)
    \/ JobExcept(j)
    \/ JobSetError(j)

\* ------------------------------------------------------ POST /api/download
Response(op, vid, code, body, prog, file) ==
    [op |-> op, vid |-> vid, code |-> code, body |-> body,
     progress |-> prog, file |-> file]

\* The thread started at lines 378-380 is the first unit not yet started.
NextJob ==
    CHOOSE j \in Jobs :
        jobs[j].pc = "idle" /\ \A k \in Jobs : jobs[k].pc = "idle" => j <= k

\* Lines 358-375: the request is validated and the prior state of the
\* identifier is discarded. (A valid request is taken only while a unit is
\* left to start.)
DownloadRequest(url, audio_only) ==
    /\ Ready
    /\ post.pc = "idle"
    /\ IF url = NoUrl
       THEN /\ resp' = Response("download", None, 200, "error: No URL provided", 0, NoName)
            /\ UNCHANGED <<download_progress, download_metadata, post>>
       ELSE IF ~Truthy(get_video_id(url))
       THEN /\ resp' = Response("download", None, 200,
                                "error: Could not extract video ID from URL", 0, NoName)
            /\ UNCHANGED <<download_progress, download_metadata, post>>
       ELSE /\ \E j \in Jobs : jobs[j].pc = "idle"
            /\ download_progress' = Del(download_progress, get_video_id(url))
            /\ download_metadata' = Del(download_metadata, get_video_id(url))
            /\ post' = [pc |-> "launch", vid |-> get_video_id(url), audio |-> audio_only]
            /\ UNCHANGED resp
    /\ UNCHANGED <<files, jobs, cleanups>>

\* Lines 378-382: the background unit is started and the identifier returned.
DownloadLaunch ==
    /\ Ready
    /\ post.pc = "launch"
    /\ jobs' = SetJob(NextJob, [IdleJob EXCEPT !.pc = "start", !.vid = post.vid,
                                               !.audio = post.audio,
                                               !.late = cleanups[post.vid] > 0])
    /\ resp' = Response("download", post.vid, 200, "video_id", 0, NoName)
    /\ post' = IdlePost
    /\ UNCHANGED <<download_progress, download_metadata, files, cleanups>>

\* ---------------------------------------------- GET /api/progress/<video_id>
\* The snapshot without the re-check of the resolved file (lines 390-396).
ProgressSnapshotStored(vid) ==
    IF Has(download_progress, vid)
    THEN Response("progress", vid, 200, download_progress[vid].status,
                  download_progress[vid].progress, download_progress[vid].filename)
    ELSE Response("progress", vid, 200, "not found", 0, NoName)

\* The snapshot with an HTTP error in place of the sentinel of line 399.
ProgressSnapshotNotFound404(vid) ==
    IF Has(download_progress, vid)
    THEN LET r == download_progress[vid]
         IN IF r.status = "completed" /\ r.filename # NoName /\ ~Exists(files, r.filename)
            THEN Response("progress", vid, 200, "error", r.progress, r.filename)
            ELSE Response("progress", vid, 200, r.status, r.progress, r.filename)
    ELSE Response("progress", vid, 404, "error: not found", 0, NoName)

\* Lines 386-399: the snapshot returned for a poll.
ProgressSnapshot(vid) ==
    IF Has(download_progress, vid)
    THEN LET r == download_progress[vid]
         IN IF r.status = "completed" /\ r.filename # NoName /\ ~Exists(files, r.filename)
            THEN Response("progress", vid, 200, "error", r.progress, r.filename)
            ELSE Response("progress", vid, 200, r.status, r.progress, r.filename)
    ELSE Response("progress", vid, 200, "not found", 0, NoName)

progress(vid) ==
    /\ Ready
    /\ resp' = ProgressSnapshot(vid)
    /\ UNCHANGED <<download_progress, download_metadata, files, jobs, post, cleanups>>

\* ------------------------------------------ GET /api/download_file/<video_id>
\* Videos whose title, and so whose file names, contain '..'.
DottedIds == {"Y"}

\* The check of line 449 with only its test of a leading '/'.
IsTraversalRootOnly(n) == FALSE

\* Line 449: '..' in filename or filename.startswith('/'); a name taken from
\* the directory never starts with '/'.
IsTraversal(n) == n.vid \in DottedIds

\* The non-empty files of any age: the fallback without its 300 s limit.
RecentFilesAnyAge(fs) == { k \in 1..Len(fs) : fs[k].size > 0 }

\* Lines 413-421: the non-empty files created within the last 300 s.
RecentFiles(fs) == { k \in 1..Len(fs) : fs[k].age = AgeFresh /\ fs[k].size > 0 }

\* Lines 408-434: the MetadataRecord table after the fallback for a missing
\* record: the youngest recent file becomes a temporary record.
WithFallback(md, fs, vid) ==
    IF Has(md, vid) \/ RecentFiles(fs) = {} THEN md
    ELSE Put(md, vid,
             [by |-> 0,
              filename |-> fs[CHOOSE k \in RecentFiles(fs) :
                                 \A m \in RecentFiles(fs) : k <= m].name])

\* Lines 488-492: the non-empty files that match by identifier or share the
\* first 20 characters of the recorded name's stem (the title of its video).
SimilarFiles(fs, vid, filename) ==
    { fs[k].name : k \in { i \in 1..Len(fs) :
          fs[i].size > 0 /\ (fs[i].name.vid = vid \/ fs[i].name.vid = filename.vid) } }

\* Lines 464-479 and 497-510: a cleanup thread is started after a send.
ScheduleCleanup(vid) ==
    /\ cleanups' = [cleanups EXCEPT ![vid] = @ + 1]
    /\ jobs' = [j \in Jobs |->
                   IF jobs[j].vid = vid THEN [jobs[j] EXCEPT !.late = FALSE]
                   ELSE jobs[j]]

\* Line 443: download_metadata[video_id]['filename'] raises KeyError for a
\* record that has no 'filename' key; nothing catches it.
FilenameKeyError(md, vid) == "filename" \notin DOMAIN md[vid]

download_file(vid) ==
    LET md == WithFallback(download_metadata, files, vid)
    IN
    /\ Ready
    /\ UNCHANGED <<download_progress, files, post>>
    /\ IF ~Has(md, vid)
       THEN \* lines 440-441
            /\ resp' = Response("download_file", vid, 404,
                                "error: Download not found or expired", 0, NoName)
            /\ download_metadata' = md
            /\ UNCHANGED <<cleanups, jobs>>
       ELSE IF FilenameKeyError(md, vid)
       THEN /\ resp' = Response("download_file", vid, 500, "unhandled KeyError", 0, NoName)
            /\ download_metadata' = md
            /\ UNCHANGED <<cleanups, jobs>>
       ELSE IF IsTraversal(md[vid].filename)
       THEN \* lines 449-451
            /\ resp' = Response("download_file", vid, 400, "error: Invalid filename",
                                0, NoName)
            /\ download_metadata' = md
            /\ UNCHANGED <<cleanups, jobs>>
       ELSE IF ExistsNonEmpty(files, md[vid].filename)
       THEN \* lines 454-480
            /\ cleanups[vid] < MaxCleanups
            /\ resp' = Response("download_file", vid, 200, "attachment", 0,
                                md[vid].filename)
            /\ download_metadata' = md
            /\ ScheduleCleanup(vid)
       ELSE IF SimilarFiles(files, vid, md[vid].filename) # {}
       THEN \* lines 487-511
            /\ cleanups[vid] < MaxCleanups
            /\ \E f \in SimilarFiles(files, vid, md[vid].filename) :
                 /\ download_metadata' =
                        [md EXCEPT ![vid] = [by |-> @.by, filename |-> f]]
                 /\ resp' = Response("download_file", vid, 200, "attachment", 0, f)
            /\ ScheduleCleanup(vid)
       ELSE \* lines 515-523
            /\ resp' = Response("download_file", vid, 404, "error: File not found",
                                0, NoName)
            /\ download_metadata' = md
            /\ UNCHANGED <<cleanups, jobs>>

\* A cleanup that clears both tables instead of removing one identifier.
cleanup_everything(vid) ==
    /\ Ready
    /\ cleanups[vid] > 0
    /\ cleanups' = [cleanups EXCEPT ![vid] = @ - 1]
    /\ download_progress' = << >>
    /\ download_metadata' = << >>
    /\ UNCHANGED <<files, jobs, post, resp>>

\* A cleanup that removes the ProgressRecord and keeps the MetadataRecord.
cleanup_progress_only(vid) ==
    /\ Ready
    /\ cleanups[vid] > 0
    /\ cleanups' = [cleanups EXCEPT ![vid] = @ - 1]
    /\ download_progress' = Del(download_progress, vid)
    /\ UNCHANGED <<download_metadata, files, jobs, post, resp>>

\* Lines 464-472 and 497-505: after its sleep the cleanup thread removes both
\* entries of the identifier.
cleanup_after_send(vid) ==
    /\ Ready
    /\ cleanups[vid] > 0
    /\ cleanups' = [cleanups EXCEPT ![vid] = @ - 1]
    /\ download_progress' = Del(download_progress, vid)
    /\ download_metadata' = Del(download_metadata, vid)
    /\ UNCHANGED <<files, jobs, post, resp>>

\* -------------------------------------------------------------- environment
\* Time passes: every file younger than 300 s becomes older than that.
ElapseMinutes ==
    /\ Ready
    /\ \E i \in 1..Len(files) : files[i].age = AgeFresh
    /\ files' = [i \in 1..Len(files) |->
                    IF files[i].age = AgeFresh THEN [files[i] EXCEPT !.age = AgeMid]
                    ELSE files[i]]
    /\ UNCHANGED <<download_progress, download_metadata, jobs, post, cleanups, resp>>

\* Time passes: every file becomes older than MAX_DOWNLOAD_AGE.
ElapseHour ==
    /\ Ready
    /\ \E i \in 1..Len(files) : files[i].age # AgeOld
    /\ files' = [i \in 1..Len(files) |-> [files[i] EXCEPT !.age = AgeOld]]
    /\ UNCHANGED <<download_progress, download_metadata, jobs, post, cleanups, resp>>

\* A file of the directory is deleted from outside the program.
ExternalDelete(n) ==
    /\ Ready
    /\ Exists(files, n)
    /\ files' = Without(files, n)
    /\ UNCHANGED <<download_progress, download_metadata, jobs, post, cleanups, resp>>

\* The response of the handler that just ran has been sent.
ResponseSent ==
    /\ resp # NoResp
    /\ resp' = NoResp
    /\ UNCHANGED <<download_progress, download_metadata, files, jobs, post, cleanups>>

\* ------------------------------------------------------------ specification
\* The download requests for the identifiers of 'ids' (or without a usable
\* URL), with audio_only drawn from 'audios'.
Requests(ids, audios) ==
    \E url \in RequestURLs \cup {NoUrl}, a \in audios :
        /\ Truthy(get_video_id(url)) => get_video_id(url) \in ids
        /\ DownloadRequest(url, a)

\* No download unit is running.
Sequential == \A j \in Jobs : jobs[j].pc \in {"idle", "done", "crashed"}

\* The download requests of a client that waits for the end of one download
\* before it asks for the next.
SeqRequests(ids, audios) == Sequential /\ Requests(ids, audios)

\* Time passing and files deleted from outside.
Environment ==
    \/ ElapseMinutes
    \/ ElapseHour
    \/ \E n \in Names : ExternalDelete(n)

\* The identifiers no download unit has been started for.
Fresh == Ids \ { jobs[j].vid : j \in Jobs }

\* Downloads of one identifier, polled while they run.
Next ==
    \/ ResponseSent
    \/ Requests({"X"}, {FALSE})
    \/ DownloadLaunch
    \/ \E j \in Jobs : download_video(j, {TickEstimate, TickFinished})
    \/ progress("X")
    \/ Environment

Spec == Init /\ [][Next]_vars

\* Downloads of one identifier, polled while files are deleted behind the
\* server's back.
NextPoll ==
    \/ ResponseSent
    \/ Requests({"X"}, {FALSE})
    \/ DownloadLaunch
    \/ \E j \in Jobs : download_video(j, {TickFinished})
    \/ progress("X")
    \/ \E n \in Names : ExternalDelete(n)

SpecPoll == Init /\ [][NextPoll]_vars

\* Downloads of one identifier, one after another, with file sends and
\* their cleanups while the files grow older than 300 s.
NextFiles ==
    \/ ResponseSent
    \/ SeqRequests({"X"}, {FALSE})
    \/ DownloadLaunch
    \/ \E j \in Jobs : download_video(j, {TickFinished})
    \/ download_file("X")
    \/ cleanup_after_send("X")
    \/ ElapseMinutes

SpecFiles == Init /\ [][NextFiles]_vars

\* One download per identifier, of both identifiers at once, with the file
\* sends of one of them and their cleanups, all within 300 s.
NextTwoIds ==
    \/ ResponseSent
    \/ Requests(Fresh, {FALSE})
    \/ DownloadLaunch
    \/ \E j \in Jobs : download_video(j, {TickFinished})
    \/ download_file("X")
    \/ cleanup_after_send("X")

SpecTwoIds == Init /\ [][NextTwoIds]_vars

\* One download per identifier, one after the other, with the file sends of
\* both and their cleanups, all within 300 s.
NextDotted ==
    \/ ResponseSent
    \/ SeqRequests(Fresh, {FALSE})
    \/ DownloadLaunch
    \/ \E j \in Jobs : download_video(j, {TickFinished})
    \/ \E vid \in Ids : download_file(vid)
    \/ \E vid \in Ids : cleanup_after_send(vid)

SpecDotted == Init /\ [][NextDotted]_vars

\* One download per identifier, of both identifiers, polled, while the files
\* grow older than MAX_DOWNLOAD_AGE: every change of the directory is the
\* program's own (the collaborator's writes and the Janitor passes).
NextJanitor ==
    \/ ResponseSent
    \/ Requests(Fresh, {FALSE})
    \/ DownloadLaunch
    \/ \E j \in Jobs : download_video(j, {TickFinished})
    \/ \E vid \in Ids : progress(vid)
    \/ ElapseHour

SpecJanitor == Init /\ [][NextJanitor]_vars

\* One download per identifier, of both identifiers, video or audio-only.
NextDiscover ==
    \/ ResponseSent
    \/ Requests(Fresh, BOOLEAN)
    \/ DownloadLaunch
    \/ \E j \in Jobs : download_video(j, {TickFinished})

SpecDiscover == Init /\ [][NextDiscover]_vars

\* The steps that move the unit j on: each statement of download_video
\* returns or raises, the collaborator call included.
JobAdvance(j) ==
    \/ JobStart(j)
    \/ CollabReturn(j)
    \/ CollabRaise(j)
    \/ JobDiscover(j)
    \/ JobFinalMeta(j)
    \/ JobExcept(j)
    \/ JobSetError(j)

\* Scheduling: a response on its way out is sent; a started thread (the
\* handler between lines 375 and 378, a download unit, a cleanup after its
\* sleep of 5 s) is not starved by the other threads.
Fairness ==
    /\ WF_vars(ResponseSent)
    /\ SF_vars(DownloadLaunch)
    /\ \A j \in Jobs : SF_vars(JobAdvance(j))
    /\ \A vid \in Ids : SF_vars(cleanup_after_send(vid))

\* Downloads of one identifier, one after another, with file sends and
\* their cleanups, all within 300 s, under fair scheduling.
NextSend ==
    \/ ResponseSent
    \/ SeqRequests({"X"}, {FALSE})
    \/ DownloadLaunch
    \/ \E j \in Jobs : download_video(j, {TickFinished})
    \/ download_file("X")
    \/ cleanup_after_send("X")

SpecSendFair == Init /\ [][NextSend]_vars /\ Fairness

\* ------------------------------------------------------------------ claims
Active == {"starting", "downloading", "processing"}
Terminal == {"completed", "error"}

Rank(st) ==
    CASE st = "starting" -> 0
      [] st = "downloading" -> 1
      [] st = "processing" -> 2
      [] st = "completed" -> 3
      [] OTHER -> 4

\* A move of the status along starting -> downloading -> processing ->
\* completed, or into error from an active status.
Forward(a, b) ==
    \/ a = b
    \/ b # "error" /\ a # "error" /\ Rank(a) < Rank(b)
    \/ b = "error" /\ a \in Active

\* C1: no write of a download unit (its progress callbacks included) into the
\* ProgressRecord it initialised moves the status backwards, or into error
\* from completed.
C1_StatusOnlyForward ==
    [][\A j \in Jobs :
         (/\ download_video(j, Ticks)
          /\ Has(download_progress, jobs[j].vid)
          /\ Has(download_progress', jobs[j].vid)
          /\ download_progress[jobs[j].vid].by = j
          /\ download_progress'[jobs[j].vid].by = j)
         => Forward(download_progress[jobs[j].vid].status,
                    download_progress'[jobs[j].vid].status)]_vars

\* C2: a stored status that is completed or error changes only by the fresh
\* initialisation of the record by a newly started download unit.
C2_TerminalIsFinal ==
    [][\A v \in Ids :
         (/\ Has(download_progress, v)
          /\ Has(download_progress', v)
          /\ download_progress[v].status \in Terminal
          /\ download_progress'[v].status # download_progress[v].status)
         => \E j \in Jobs : JobStart(j) /\ jobs[j].vid = v]_vars

\* C3: a ProgressRecord holds only values written by the unit that
\* initialised it last: no other unit has written into it since.
C3_LastWriterWins ==
    \A v \in DOMAIN download_progress : ~download_progress[v].stale

\* C5: when POST /api/download starts the background unit, neither table
\* holds an entry for the identifier, and the handler returns {video_id}.
C5_CleanAtLaunch ==
    [][DownloadLaunch =>
         /\ ~Has(download_progress, post.vid)
         /\ ~Has(download_metadata, post.vid)
         /\ resp' = Response("download", post.vid, 200, "video_id", 0, NoName)]_vars

\* The entry of identifier y is the same in both tables before and after.
SameEntries(y) ==
    /\ Has(download_progress', y) <=> Has(download_progress, y)
    /\ Has(download_progress, y) => download_progress'[y] = download_progress[y]
    /\ Has(download_metadata', y) <=> Has(download_metadata, y)
    /\ Has(download_metadata, y) => download_metadata'[y] = download_metadata[y]

\* C4: no step of the background unit, progress callback or delayed cleanup of
\* one identifier creates, modifies or deletes the ProgressRecord or
\* MetadataRecord of another identifier: a step that changes the entries of y,
\* when it is a step of a unit or of a cleanup, is one of y's own.
C4_OtherIdsUntouched ==
    [][\A y \in Ids :
         ~SameEntries(y) =>
            /\ \A j \in Jobs : download_video(j, Ticks) => jobs[j].vid = y
            /\ \A x \in Ids : cleanup_after_send(x) => x = y]_vars

\* C4 witness: the entries of X were removed by the cleanup after its send
\* while the unit of Y was still downloading into its own record.
C4_Witness ==
    \E j, k \in Jobs :
        /\ jobs[j].vid = "X" /\ jobs[j].pc = "done"
        /\ ~Has(download_progress, "X") /\ ~Has(download_metadata, "X")
        /\ jobs[k].vid = "Y" /\ jobs[k].pc = "extract"
        /\ Has(download_progress, "Y")
        /\ download_progress["Y"].status = "processing"
        /\ download_progress["Y"].by = k

\* The requests whose URL is missing or yields no identifier: a foreign host,
\* a short link without a path segment, a watch URL without the v parameter.
BadRequestURLs ==
    { NoUrl,
      [netloc |-> <<"example.com">>, path |-> "/X", v |-> "X"],
      [netloc |-> <<"youtu.be">>, path |-> "/", v |-> None],
      [netloc |-> <<"m.", "youtube.com">>, path |-> "", v |-> None] }

\* C6: a download request whose URL is missing or yields no identifier returns
\* an error payload and changes nothing: both tables, the directory (no
\* Janitor pass) and the background units (none launched) stay as they were.
C6_BadRequestNoJob ==
    [][\A url \in BadRequestURLs, a \in BOOLEAN :
         DownloadRequest(url, a) =>
            /\ resp'.op = "download" /\ resp'.vid = None
            /\ resp'.body \in {"error: No URL provided",
                               "error: Could not extract video ID from URL"}
            /\ UNCHANGED <<download_progress, download_metadata, files, jobs,
                           post, cleanups>>]_vars

\* C6 witness: such a request was answered while a job's entries were stored.
C6_Witness ==
    /\ resp.op = "download"
    /\ resp.body = "error: Could not extract video ID from URL"
    /\ Has(download_progress, "X") /\ Has(download_metadata, "X")
    /\ files # << >>

\* C7: a poll never modifies the tables; when the stored status is completed
\* and the resolved file is gone from the directory, the snapshot returned has
\* status error.
C7_PollDowngradesSnapshotOnly ==
    [][\A vid \in Ids :
         progress(vid) =>
            /\ UNCHANGED <<download_progress, download_metadata>>
            /\ (/\ Has(download_progress, vid)
                /\ download_progress[vid].status = "completed"
                /\ \A i \in 1..Len(files) :
                      files[i].name # download_progress[vid].filename)
               => resp'.body = "error"]_vars

\* C7 witness: a poll answered error while the stored record is completed.
C7_Witness ==
    /\ resp.op = "progress" /\ resp.body = "error"
    /\ Has(download_progress, resp.vid)
    /\ download_progress[resp.vid].status = "completed"
    /\ download_progress[resp.vid].progress = 100

\* C8: a poll for an identifier without a ProgressRecord returns the sentinel
\* {progress: 0, status: "not found"} as a normal response and creates no
\* entry in either table.
C8_UnknownIdSentinel ==
    [][\A vid \in Ids :
         (progress(vid) /\ ~Has(download_progress, vid)) =>
            /\ resp'.code = 200 /\ resp'.body = "not found" /\ resp'.progress = 0
            /\ resp'.vid = vid
            /\ ~Has(download_progress', vid)
            /\ DOMAIN download_metadata' = DOMAIN download_metadata]_vars

\* C8 witness: the sentinel was returned for an identifier whose download unit
\* had been started but had not stored its record yet.
C8_Witness ==
    /\ resp.op = "progress" /\ resp.body = "not found"
    /\ \E j \in Jobs : jobs[j].vid = resp.vid /\ jobs[j].pc = "start"

\* C9: every call of GET /api/download_file ends in a streamed attachment, a
\* 400 JSON error or a 404 JSON error.
C9_NoServerFault ==
    resp.op = "download_file" =>
        \/ resp.code = 200 /\ resp.body = "attachment"
        \/ resp.code = 400
        \/ resp.code = 404

\* C10 (as stated): without a MetadataRecord and without a non-empty file
\* created within the last 5 minutes, the call returns 404, sends no file and
\* leaves both tables without an entry for the identifier.
C10_NoEntryInEitherTable ==
    [][\A vid \in Ids :
         (/\ download_file(vid)
          /\ ~Has(download_metadata, vid)
          /\ \A i \in 1..Len(files) : files[i].age # AgeFresh \/ files[i].size = 0)
         => /\ resp'.code = 404 /\ resp'.file = NoName
            /\ ~Has(download_metadata', vid)
            /\ ~Has(download_progress', vid)]_vars

\* C10 (amended): without a MetadataRecord and without a non-empty file
\* created within the last 5 minutes, the call returns 404 with an error body,
\* sends no file, schedules no cleanup, stores no MetadataRecord and leaves
\* download_progress as it was.
C10_NotFoundCreatesNothing ==
    [][\A vid \in Ids :
         (/\ download_file(vid)
          /\ ~Has(download_metadata, vid)
          /\ \A i \in 1..Len(files) : files[i].age # AgeFresh \/ files[i].size = 0)
         => /\ resp'.code = 404 /\ resp'.file = NoName
            /\ resp'.body = "error: Download not found or expired"
            /\ ~Has(download_metadata', vid)
            /\ UNCHANGED <<download_progress, download_metadata, cleanups>>]_vars

\* C10 witness: the 404 was returned while the directory held a file, older
\* than 5 minutes or empty, and no MetadataRecord was stored.
C10_Witness ==
    /\ resp.op = "download_file" /\ resp.code = 404
    /\ resp.body = "error: Download not found or expired"
    /\ ~Has(download_metadata, resp.vid)
    /\ files # << >>

\* The MetadataRecord table as download_file uses it: with the temporary
\* record of the recent-file fallback when the identifier has none.
UsedMetadata(vid) == WithFallback(download_metadata, files, vid)

\* C11: whenever the filename of the MetadataRecord used by GET
\* /api/download_file contains '..', the call returns 400, sends no file and
\* starts no cleanup, whether or not the file exists and whether the record
\* came from a download unit or from the recent-file fallback.
C11_TraversalRejected ==
    [][\A vid \in Ids :
         (/\ Has(UsedMetadata(vid), vid)
          /\ "filename" \in DOMAIN UsedMetadata(vid)[vid]
          /\ UsedMetadata(vid)[vid].filename.vid \in DottedIds
          /\ download_file(vid))
         => /\ resp'.code = 400
            /\ resp'.body = "error: Invalid filename"
            /\ resp'.file = NoName
            /\ UNCHANGED cleanups]_vars

\* C11 witness: the request for Y was rejected with 400 although the file
\* recorded by its download unit is in the directory and non-empty, and the
\* fallback had recorded the same dotted name for X (and was rejected).
C11_Witness ==
    /\ resp.op = "download_file" /\ resp.vid = "Y" /\ resp.code = 400
    /\ Has(download_metadata, "Y")
    /\ download_metadata["Y"].by \in Jobs
    /\ "filename" \in DOMAIN download_metadata["Y"]
    /\ ExistsNonEmpty(files, download_metadata["Y"].filename)
    /\ Has(download_metadata, "X")
    /\ download_metadata["X"].by = 0
    /\ download_metadata["X"].filename.vid \in DottedIds

C13_CompletedHasFile ==
    \A v \in DOMAIN download_progress :
        download_progress[v].status = "completed"
           => Exists(files, download_progress[v].filename)

\* C14: the progress field of every stored ProgressRecord is within 0 to 100.
C14_ProgressInRange ==
    \A v \in DOMAIN download_progress :
        download_progress[v].progress >= 0 /\ download_progress[v].progress <= 100

\* The identifier a URL stands for: the v parameter for the standard hosts,
\* the first path segment for the short-link host, none for any other host.
ExpectedId(url) ==
    IF url.netloc = <<"youtu.be">>
    THEN (IF url.path \in {"/X", "/Y"} THEN PathTail(url.path) ELSE None)
    ELSE IF url.netloc \in youtube_domains THEN url.v
    ELSE None

\* C15: get_video_id, as applied by POST /api/download to the URL of a
\* request, yields the expected identifier for every supported URL shape and
\* none for every URL whose host is not one of the known hostnames, hosts
\* that contain a known hostname included: such a request is answered with
\* the extraction error and starts nothing.
C15_ExtractsExpectedId ==
    [][\A url \in RequestURLs, a \in BOOLEAN :
         DownloadRequest(url, a) =>
            IF ExpectedId(url) = None
            THEN /\ post' = post
                 /\ resp'.body = "error: Could not extract video ID from URL"
            ELSE post'.vid = ExpectedId(url)]_vars

\* C16: every download unit that has been launched eventually leaves the
\* ProgressRecord of its identifier in status completed or error.
C16_UnitEndsTerminal ==
    \A j \in Jobs, v \in Ids :
        (jobs[j].pc = "start" /\ jobs[j].vid = v)
           ~> (Has(download_progress, v) /\ download_progress[v].status \in Terminal)

\* C17: an exception raised inside a download unit never leaves the unit
\* uncaught; when the handler finds a ProgressRecord of the identifier, the
\* record's status becomes error with the exception's message, and when it
\* finds none, both tables stay as they are.
C17_ExceptionsCaught ==
    /\ [](\A j \in Jobs : jobs[j].pc # "crashed")
    /\ [][\A j \in Jobs :
            JobSetError(j) =>
               /\ Has(download_progress', jobs[j].vid)
               /\ download_progress'[jobs[j].vid].status = "error"
               /\ download_progress'[jobs[j].vid].error = jobs[j].exc]_vars
    /\ [][\A j \in Jobs :
            (JobExcept(j) /\ ~Has(download_progress, jobs[j].vid))
               => UNCHANGED <<download_progress, download_metadata>>]_vars

\* C18: the file discovery of a download unit settles on (a) the predicted
\* output file, with the audio extension for audio-only, if it exists and is
\* non-empty; else (b) a non-empty file whose name contains the identifier;
\* else (c) the most recently modified non-empty file; and on no file (status
\* error) only when the directory holds no non-empty file.
C18_DiscoveryOrder ==
    [][\A j \in Jobs :
         (Has(download_progress, jobs[j].vid) /\ JobDiscover(j)) =>
            LET vid == jobs[j].vid
                predicted == [vid |-> vid, ext |-> IF jobs[j].audio THEN "mp3" ELSE "mp4"]
                nonEmpty == { i \in 1..Len(files) : files[i].size > 0 }
                after == download_progress'[vid]
            IN IF \E i \in nonEmpty : files[i].name = predicted
               THEN after.status = "completed" /\ after.filename = predicted
               ELSE IF \E i \in nonEmpty : files[i].name.vid = vid
               THEN /\ after.status = "completed"
                    /\ after.filename.vid = vid
                    /\ \E i \in nonEmpty : files[i].name = after.filename
               ELSE IF nonEmpty # {}
               THEN /\ after.status = "completed"
                    /\ \E i \in nonEmpty :
                          /\ files[i].name = after.filename
                          /\ \A m \in nonEmpty : i <= m
               ELSE /\ after.status = "error"
                    /\ after.error = MsgNoFile
                    /\ after.filename = NoName]_vars

\* C18 witness: an audio-only unit whose transcoded file is empty settled on
\* the container file by rule (b), while the other identifier's unit, which
\* wrote nothing, settled on that same file as the most recent one by rule (c).
C18_Witness ==
    \E j, k \in Jobs :
        /\ jobs[j].pc = "finalmeta" /\ jobs[j].audio
        /\ jobs[j].actual = [vid |-> jobs[j].vid, ext |-> "mp4"]
        /\ \E i \in 1..Len(files) :
              files[i].name = [vid |-> jobs[j].vid, ext |-> "mp3"] /\ files[i].size = 0
        /\ jobs[k].pc = "finalmeta" /\ jobs[k].vid # jobs[j].vid
        /\ jobs[k].actual = jobs[j].actual
        /\ download_progress[jobs[k].vid].status = "completed"

\* C19: whenever a stored ProgressRecord has status completed, its filename,
\* filepath and end_time are set and the MetadataRecord of the identifier
\* exists with the same filename; and a discovery that finds no file sets
\* status error with a message.
C19_CompletedIsWhole ==
    /\ [](\A v \in DOMAIN download_progress :
            download_progress[v].status = "completed" =>
               /\ download_progress[v].filename # NoName
               /\ download_progress[v].filepath # NoName
               /\ download_progress[v].end_time
               /\ Has(download_metadata, v)
               /\ "filename" \in DOMAIN download_metadata[v]
               /\ download_metadata[v].filename = download_progress[v].filename)
    /\ [][\A j \in Jobs :
            (/\ JobDiscover(j)
             /\ Has(download_progress, jobs[j].vid)
             /\ \A i \in 1..Len(files) : files[i].size = 0)
            => /\ download_progress'[jobs[j].vid].status = "error"
               /\ download_progress'[jobs[j].vid].error = MsgNoFile]_vars

\* C20: the delayed cleanup of a send deletes no ProgressRecord and no
\* MetadataRecord stored by a download unit that was launched during the
\* cleanup's delay, and such a unit still leaves the ProgressRecord of its
\* identifier in status completed or error.
C20_CleanupSparesNewJob ==
    /\ [][\A vid \in Ids :
            cleanup_after_send(vid) =>
               \A k \in Jobs :
                  (jobs[k].vid = vid /\ jobs[k].late) =>
                     /\ (Has(download_progress, vid) /\ download_progress[vid].by = k)
                           => Has(download_progress', vid)
                     /\ (Has(download_metadata, vid) /\ download_metadata[vid].by = k)
                           => Has(download_metadata', vid)]_vars
    /\ \A k \in Jobs, v \in Ids :
          (jobs[k].pc = "start" /\ jobs[k].late /\ jobs[k].vid = v)
             ~> (Has(download_progress, v) /\ download_progress[v].status \in Terminal)

\* The statuses a job reports.
JobStatuses == Active \cup Terminal

\* C21: once POST /api/download has returned the identifier (a download unit
\* has been started for it), and while no cleanup of a file send has removed
\* its entries (none is sleeping or has run: no file is sent where this is
\* checked), every poll for the identifier reports one of the job statuses
\* and never the "not found" sentinel.
C21_PollAfterPostFindsJob ==
    [][\A vid \in Ids :
         (/\ \E j \in Jobs : jobs[j].vid = vid /\ jobs[j].pc # "idle"
          /\ cleanups[vid] = 0
          /\ progress(vid))
         => resp'.body \in JobStatuses]_vars

\* C22: the file of a completed ProgressRecord of an identifier, and every
\* file streamed by GET /api/download_file for an identifier, was written by
\* a download unit of that identifier (file names carry the identifier of the
\* unit that wrote them).
C22_OwnFileOnly ==
    /\ [](\A v \in DOMAIN download_progress :
            download_progress[v].status = "completed"
               => download_progress[v].filepath.vid = v)
    /\ [][\A vid \in Ids :
            (download_file(vid) /\ resp'.body = "attachment")
               => resp'.file.vid = vid]_vars

====
